---- MODULE Spec2Model ----
(***************************************************************************)
(* Model of prep.py, the environment-preparation script of the Aria Config *)
(* Docker lab: clean_environment, prepare_enterprise_bundle,               *)
(* write_env_file, create_symlink, prompt_docker_compose and the two mode  *)
(* handlers driven by main.                                                *)
(*                                                                         *)
(* The workspace is a pair of directory trees: the directory the script    *)
(* lives in (script_dir, used by prepare_enterprise_bundle and             *)
(* create_symlink) and the directory the process was started in (used by   *)
(* every relative path: clean_environment, write_env_file, the globs and   *)
(* the compose tool).  They are the same tree when cwd = "script_dir".     *)
(*                                                                         *)
(* A tree maps each path the script names to a node: absent, a directory,  *)
(* a regular file or a symbolic link.  A link's destination is one of the  *)
(* link targets of SYMLINKS (absolute, under script_dir) or an object      *)
(* outside the named paths: "ext_dir", "ext_file" or "nowhere" (dangling). *)
(* Intermediate directories the script never names (build, data,           *)
(* data/raas, ...) are ordinary directories that exist whenever something  *)
(* below them does.  File-system calls succeed whenever their              *)
(* preconditions hold: no permission or I/O faults.                        *)
(*                                                                         *)
(* Strings are sequences of tokens: a token is a word (no blank, no "=",   *)
(* no newline inside), a blank " " or an equals sign "=".                  *)
(***************************************************************************)
EXTENDS Integers, Sequences, FiniteSets, TLC

VARIABLES
  fs,         \* the two directory trees: fs[root][path] is a node
  cwd,        \* the root relative paths are resolved against
  pc,         \* the function of prep.py that runs next
  args,       \* the parsed command line
  exitCode,   \* the exit status once pc = "exit", -1 before
  bundle,     \* the installer archive under script_dir, as the glob saw it
  fs0,        \* history: the trees before the run (before the first call)
  env_vars,   \* history: the mapping the latest write_env_file computed
  calls,      \* history: the direct calls made so far, in order
  teardowns,  \* history: results of compose down, in order
  launches,   \* history: results of compose up -d, in order
  prompts,    \* history: number of terminal prompts waited on
  before,     \* history: the trees before the latest step or call
  deps,       \* history: what check_dependencies found, "unchecked" before
  steps,      \* history: the functions main and its handler ran, in order
  answers,    \* history: what was typed at the launch prompt, in order
  escaped,    \* history: a file was created outside script_dir/build
  interrupted \* "no", or the step during which SIGINT/SIGTERM arrived

vars == <<fs, cwd, pc, args, exitCode, bundle, fs0, env_vars, calls,
          teardowns, launches, prompts, before, deps, steps, answers,
          escaped, interrupted>>

(***************************************************************************)
(* Configuration constants (prep.py lines 41-79)                           *)
(***************************************************************************)
COMPOSE_FILE_NAME == "compose.yaml"

OSS_COMPOSE_FILE == "oss-compose.yaml"

ENTERPRISE_COMPOSE_FILE == "aria-compose.yaml"

ENV_FILE == ".env"

MASTER_D == "data/master.d"

SYMLINKS ==
  [l \in {COMPOSE_FILE_NAME, MASTER_D} |->
     IF l = COMPOSE_FILE_NAME
       THEN [oss |-> OSS_COMPOSE_FILE, enterprise |-> ENTERPRISE_COMPOSE_FILE]
       ELSE [oss |-> "data/oss-master", enterprise |-> "data/ent-master"]]

DIRECTORIES_TO_REMOVE ==
  << "build/sse-installer", "build/raas/eapi_service",
     "build/salt-master/eapi_plugin", "data/postgres", "data/raas/pki",
     "data/master/pki", "data/redis" >>

FILES_TO_REMOVE ==
  << ".env", "data/raas/raas.secconf", "data/raas/initialized",
     "data/redis/redis.conf" >>

SYMLINKS_TO_REMOVE == << "compose.yaml", "data/master.d" >>

DEFAULT_SALT_VERSION == <<"3006.9">>

DEFAULT_POSTGRES_USER == <<"salteapi">>

(***************************************************************************)
(* Paths below the managed directories that the bundle step and the globs  *)
(* of write_env_file name.                                                 *)
(***************************************************************************)
src_eapi_service == "build/sse-installer/salt/sse/eapi_service"

src_eapi_plugin == "build/sse-installer/salt/sse/eapi_plugin"

dest_eapi_service == "build/raas/eapi_service"

dest_eapi_plugin == "build/salt-master/eapi_plugin"

SrcRpm == "build/sse-installer/salt/sse/eapi_service/files/raas.rpm"

SrcWhl == "build/sse-installer/salt/sse/eapi_plugin/files/SSEAPE.whl"

raas_rpm_paths == "build/raas/eapi_service/files/raas.rpm"

master_plugin_paths == "build/salt-master/eapi_plugin/files/SSEAPE.whl"

Range(s) == {s[i] : i \in DOMAIN s}

ManagedDirs == Range(DIRECTORIES_TO_REMOVE)

ManagedFiles == Range(FILES_TO_REMOVE)

ManagedLinks == Range(SYMLINKS_TO_REMOVE)

LinkTargets == {SYMLINKS[l][e] : l \in ManagedLinks, e \in {"oss", "enterprise"}}

BundlePaths ==
  {src_eapi_service, src_eapi_plugin, SrcRpm, SrcWhl,
   raas_rpm_paths, master_plugin_paths}

Paths == ManagedDirs \cup ManagedFiles \cup ManagedLinks \cup LinkTargets
           \cup BundlePaths

Roots == {"script_dir", "elsewhere"}

\* The named path directly above p, "" when p hangs off an unnamed directory.
Parent(p) ==
  CASE p = "data/redis/redis.conf" -> "data/redis"
    [] p = src_eapi_service -> "build/sse-installer"
    [] p = src_eapi_plugin -> "build/sse-installer"
    [] p = SrcRpm -> src_eapi_service
    [] p = SrcWhl -> src_eapi_plugin
    [] p = raas_rpm_paths -> dest_eapi_service
    [] p = master_plugin_paths -> dest_eapi_plugin
    [] OTHER -> ""

RECURSIVE IsBelow(_, _)
IsBelow(p, d) ==
  IF Parent(p) = "" THEN FALSE
  ELSE Parent(p) = d \/ IsBelow(Parent(p), d)

(***************************************************************************)
(* Nodes and the pathlib predicates                                        *)
(***************************************************************************)
Absent == [kind |-> "absent", to |-> "", content |-> <<>>]

Dir == [kind |-> "dir", to |-> "", content |-> <<>>]

File(c) == [kind |-> "file", to |-> "", content |-> c]

\* A symbolic link; content is the text of the file it resolves to, if any.
Link(t, c) == [kind |-> "symlink", to |-> t, content |-> c]

ExtDests == {"ext_dir", "ext_file", "nowhere"}

MaxHops == 3

\* What a path resolves to when symbolic links are followed (os.stat).
RECURSIVE ResolveKind(_, _, _, _)
ResolveKind(f, r, p, hops) ==
  LET n == f[r][p] IN
  IF n.kind # "symlink" THEN n.kind
  ELSE IF n.to = "ext_dir" THEN "dir"
  ELSE IF n.to = "ext_file" THEN "file"
  ELSE IF n.to = "nowhere" \/ hops = 0 THEN "absent"
  ELSE ResolveKind(f, "script_dir", n.to, hops - 1)

\* Path.exists(), Path.is_dir(), Path.is_file(): follow links.
exists(f, r, p) == ResolveKind(f, r, p, MaxHops) # "absent"

is_dir(f, r, p) == ResolveKind(f, r, p, MaxHops) = "dir"

is_file(f, r, p) == ResolveKind(f, r, p, MaxHops) = "file"

\* Path.is_symlink(): looks at the name itself.
is_symlink(f, r, p) == f[r][p].kind = "symlink"

\* Every named child sits in something that resolves to a directory.
WellFormed(f) ==
  \A r \in Roots : \A p \in Paths :
    (f[r][p].kind # "absent" /\ Parent(p) # "") => is_dir(f, r, Parent(p))

(***************************************************************************)
(* clean_environment (prep.py lines 138-189)                               *)
(***************************************************************************)
\* shutil.rmtree: refuses a symbolic link (the OSError is caught and logged
\* by the caller), otherwise removes the directory and all that is below it.
rmtree(f, r, d) ==
  IF is_symlink(f, r, d) THEN f
  ELSE [f EXCEPT ![r] =
          [p \in Paths |-> IF p = d \/ IsBelow(p, d) THEN Absent ELSE f[r][p]]]

\* Path.unlink(): removes the name (a link itself, never its destination).
unlink(f, r, p) == [f EXCEPT ![r][p] = Absent]

RECURSIVE RemoveDirectories(_, _, _)
RemoveDirectories(f, r, i) ==
  IF i > Len(DIRECTORIES_TO_REMOVE) THEN f
  ELSE LET d == DIRECTORIES_TO_REMOVE[i] IN
       RemoveDirectories(
         IF exists(f, r, d) /\ is_dir(f, r, d) THEN rmtree(f, r, d) ELSE f,
         r, i + 1)

\* Mutant: the file test looks at the name itself and misses links to files.
RECURSIVE RemoveFilesNoFollow(_, _, _)
RemoveFilesNoFollow(f, r, i) ==
  IF i > Len(FILES_TO_REMOVE) THEN f
  ELSE LET p == FILES_TO_REMOVE[i] IN
       RemoveFilesNoFollow(
         IF f[r][p].kind = "file" THEN unlink(f, r, p) ELSE f,
         r, i + 1)

RECURSIVE RemoveFiles(_, _, _)
RemoveFiles(f, r, i) ==
  IF i > Len(FILES_TO_REMOVE) THEN f
  ELSE LET p == FILES_TO_REMOVE[i] IN
       RemoveFiles(
         IF exists(f, r, p) /\ is_file(f, r, p) THEN unlink(f, r, p) ELSE f,
         r, i + 1)

\* Mutant: whatever occupies the link name is unlinked.
LinkTestAnyKind(f, r, p) == f[r][p].kind # "absent"

\* The test of line 180: the name itself is a symbolic link.
link_test(f, r, p) == is_symlink(f, r, p)

\* Mutant: the loop stops after the first link it removed.
RECURSIVE RemoveSymlinksFirstOnly(_, _, _)
RemoveSymlinksFirstOnly(f, r, i) ==
  IF i > Len(SYMLINKS_TO_REMOVE) THEN f
  ELSE LET p == SYMLINKS_TO_REMOVE[i] IN
       IF is_symlink(f, r, p) THEN unlink(f, r, p)
       ELSE RemoveSymlinksFirstOnly(f, r, i + 1)

RECURSIVE RemoveSymlinks(_, _, _)
RemoveSymlinks(f, r, i) ==
  IF i > Len(SYMLINKS_TO_REMOVE) THEN f
  ELSE LET p == SYMLINKS_TO_REMOVE[i] IN
       RemoveSymlinks(
         IF link_test(f, r, p) THEN unlink(f, r, p) ELSE f,
         r, i + 1)

\* The removals of clean_environment, in the order of the code.
clean_environment(f, r) ==
  RemoveSymlinks(RemoveFiles(RemoveDirectories(f, r, 1), r, 1), r, 1)

\* The teardown is attempted only when compose.yaml exists (line 146).
TeardownRuns(f, r) == exists(f, r, COMPOSE_FILE_NAME)

(***************************************************************************)
(* Strings and the KEY=VALUE file format                                   *)
(***************************************************************************)
\* str.strip(): drops the blanks (and the line end) at both ends.
RECURSIVE lstrip(_)
lstrip(s) == IF s # <<>> /\ Head(s) = " " THEN lstrip(Tail(s)) ELSE s

RECURSIVE rstrip(_)
rstrip(s) ==
  IF s # <<>> /\ s[Len(s)] = " " THEN rstrip(SubSeq(s, 1, Len(s) - 1)) ELSE s

strip(s) == rstrip(lstrip(s))

\* '=' in line
HasEq(s) == \E i \in DOMAIN s : s[i] = "="

FirstEq(s) == CHOOSE i \in DOMAIN s : s[i] = "=" /\ \A j \in 1..(i - 1) : s[j] # "="

\* str.split('=', 1) of a string that holds an '=': <<key, value>>.
split1(s) == << SubSeq(s, 1, FirstEq(s) - 1), SubSeq(s, FirstEq(s) + 1, Len(s)) >>

\* A dict is a sequence of <<key, value>> pairs with distinct keys, in
\* insertion order.
HasKey(d, k) == \E i \in DOMAIN d : d[i][1] = k

Get(d, k) == d[CHOOSE i \in DOMAIN d : d[i][1] = k][2]

Keys(d) == {d[i][1] : i \in DOMAIN d}

\* d[k] = v: an existing key keeps its place, a new key goes last.
Put(d, k, v) ==
  IF HasKey(d, k)
    THEN [i \in DOMAIN d |-> IF d[i][1] = k THEN <<k, v>> ELSE d[i]]
    ELSE Append(d, <<k, v>>)

\* dict.update(e)
RECURSIVE update(_, _)
update(d, e) ==
  IF e = <<>> THEN d ELSE update(Put(d, Head(e)[1], Head(e)[2]), Tail(e))

\* The read loop of write_env_file (lines 242-245): a line without '=' is
\* skipped, a later line of the same key wins.
RECURSIVE read_env(_, _)
read_env(lines, d) ==
  IF lines = <<>> THEN d
  ELSE LET line == Head(lines) IN
       read_env(Tail(lines),
                IF HasEq(line)
                  THEN Put(d, split1(strip(line))[1], split1(strip(line))[2])
                  ELSE d)

\* The write loop (lines 257-258): one line key=value per entry.
format_env(d) == [i \in DOMAIN d |-> d[i][1] \o <<"=">> \o d[i][2]]

K_SALT_VERSION == <<"SALT_VERSION">>

K_RAAS_RPM_NAME == <<"RAAS_RPM_NAME">>

K_MASTER_PLUGIN_NAME == <<"MASTER_PLUGIN_NAME">>

K_POSTGRES_USER == <<"POSTGRES_USER">>

K_POSTGRES_PASS == <<"POSTGRES_PASS">>

K_REDIS_PASSWORD == <<"REDIS_PASSWORD">>

\* What getpass returns at end of input: EOFError, which nothing catches.
EOF == <<"<EOF>">>

(***************************************************************************)
(* write_env_file (prep.py lines 191-262)                                  *)
(***************************************************************************)
\* glob.glob of a pattern: a name in the directory matches, whatever it is.
glob(f, r, p) == f[r][p].kind # "absent"

\* The artifact names of the Enterprise branch (lines 206-220): a glob
\* without a match only logs a warning.
artifact_vars(f, r, d) ==
  LET d1 == IF glob(f, r, raas_rpm_paths)
              THEN Put(d, K_RAAS_RPM_NAME, <<"raas.rpm">>) ELSE d
  IN IF glob(f, r, master_plugin_paths)
       THEN Put(d1, K_MASTER_PLUGIN_NAME, <<"SSEAPE.whl">>) ELSE d1

\* Line 223: the credentials are used only when both passwords are there.
credentials_given(credentials) ==
  credentials # <<>> /\ HasKey(credentials, K_POSTGRES_PASS)
    /\ HasKey(credentials, K_REDIS_PASSWORD)

\* Lines 223-234, given what the two getpass calls returned.
credential_vars(d, credentials, postgres_pass, redis_password) ==
  IF credentials_given(credentials) THEN update(d, credentials)
  ELSE Put(Put(Put(d, K_POSTGRES_USER, DEFAULT_POSTGRES_USER),
               K_POSTGRES_PASS, postgres_pass),
           K_REDIS_PASSWORD, redis_password)

\* The number of getpass calls made: none with credentials, one when the
\* first hits end of input, two otherwise.
getpass_calls(enterprise, credentials, postgres_pass) ==
  IF ~enterprise \/ credentials_given(credentials) THEN 0
  ELSE IF postgres_pass = EOF THEN 1 ELSE 2

\* What each of the two getpass calls can return: <<>> stands for a call
\* that is not made.
postgres_answers(enterprise, credentials, typed) ==
  IF getpass_calls(enterprise, credentials, <<>>) = 0 THEN {<<>>} ELSE typed

redis_answers(enterprise, credentials, postgres_pass, typed) ==
  IF getpass_calls(enterprise, credentials, postgres_pass) < 2 THEN {<<>>} ELSE typed

getpass_failed(enterprise, credentials, postgres_pass, redis_password) ==
  enterprise /\ ~credentials_given(credentials)
    /\ (postgres_pass = EOF \/ redis_password = EOF)

\* The freshly computed mapping (lines 202-234).
compute_env_vars(f, r, salt_version, enterprise, credentials, postgres_pass, redis_password) ==
  LET base == << <<K_SALT_VERSION, salt_version>> >> IN
  IF enterprise
    THEN credential_vars(artifact_vars(f, r, base), credentials,
                         postgres_pass, redis_password)
    ELSE base

\* Mutant: reading the existing file never fails.
ReadNeverFails(f, r) == FALSE

\* Lines 239-249: the existing file is read when the path exists; reading a
\* directory raises, which is caught and ends the run.
read_fails(f, r) == exists(f, r, ENV_FILE) /\ ~is_file(f, r, ENV_FILE)

\* The text behind the name: of the file, or of the file a link leads to.
RECURSIVE text_of(_, _, _, _)
text_of(f, r, p, hops) ==
  LET n == f[r][p] IN
  IF n.kind = "symlink" /\ n.to \in Paths /\ hops > 0
    THEN text_of(f, "script_dir", n.to, hops - 1)
    ELSE n.content

existing_env(f, r) ==
  IF exists(f, r, ENV_FILE) THEN read_env(text_of(f, r, ENV_FILE, MaxHops), <<>>)
  ELSE <<>>

\* Mutant: the update goes the other way, the values of the file win.
MergeEnvOldWins(existing, new) == update(new, existing)

\* Lines 251-252: the new values win.
merge_env(existing, new) == update(existing, new)

\* open('w') and the writes: the file is created or replaced; through a
\* link the file it leads to is written, and created when it is missing.
RECURSIVE open_w(_, _, _, _, _)
open_w(f, r, p, lines, hops) ==
  LET n == f[r][p] IN
  IF n.kind # "symlink" THEN [f EXCEPT ![r][p] = File(lines)]
  ELSE IF n.to \in Paths /\ hops > 0
    THEN open_w(f, "script_dir", n.to, lines, hops - 1)
    ELSE [f EXCEPT ![r][p] = Link("ext_file", lines)]

\* write_env_file as a whole: the trees afterwards and whether it returned.
write_env_file(f, r, salt_version, enterprise, credentials, postgres_pass, redis_password) ==
  LET new == compute_env_vars(f, r, salt_version, enterprise, credentials,
                              postgres_pass, redis_password)
  IN IF getpass_failed(enterprise, credentials, postgres_pass, redis_password)
          \/ read_fails(f, r)
       THEN [fs |-> f, ok |-> FALSE, env_vars |-> <<>>]
       ELSE [fs |-> open_w(f, r, ENV_FILE,
                           format_env(merge_env(existing_env(f, r), new)),
                           MaxHops),
             ok |-> TRUE, env_vars |-> new]

(***************************************************************************)
(* prepare_enterprise_bundle (prep.py lines 284-323), under script_dir     *)
(***************************************************************************)
\* The archive the glob of line 293 finds: whether one matches, whether
\* tarfile can read it, which of the expected members it holds, and whether
\* its first member is named outside the extraction directory
\* (../../escape); such an archive is otherwise a complete one.
Bundles ==
  {b \in [present : BOOLEAN, corrupt : BOOLEAN, service : BOOLEAN,
          rpm : BOOLEAN, plugin : BOOLEAN, whl : BOOLEAN, escape : BOOLEAN] :
     /\ b.corrupt => b.present
     /\ (~b.present \/ b.corrupt) => ~(b.service \/ b.plugin)
     /\ b.rpm => b.service
     /\ b.whl => b.plugin
     /\ b.escape => (b.rpm /\ b.whl)}

NoBundle ==
  [present |-> FALSE, corrupt |-> FALSE, service |-> FALSE, rpm |-> FALSE,
   plugin |-> FALSE, whl |-> FALSE, escape |-> FALSE]

\* tar.extractall is called without a filter argument (line 298), so the
\* interpreter's default applies: every member is written where its name
\* says ("fully_trusted", the default up to Python 3.13), or a member
\* outside the destination raises a TarError ("data", the default from 3.14).
ExtractionFilters == {"fully_trusted", "data"}

\* The extraction stops at the member named outside the destination.
extraction_refused(b, filter) == b.escape /\ filter = "data"

\* A directory can be made or entered at p: os.mkdir / os.makedirs with an
\* existing directory (or a link to one) tolerated.
can_mkdir(f, r, p) == f[r][p].kind = "absent" \/ is_dir(f, r, p)

mkdir(f, r, p) == IF f[r][p].kind = "absent" THEN [f EXCEPT ![r][p] = Dir] ELSE f

\* tar.extractall(path=script_dir / 'build'): members are created, members
\* already there are kept or overwritten.
extractall(f, b) ==
  LET r == "script_dir"
      f1 == mkdir(f, r, "build/sse-installer")
      f2 == IF b.service THEN [f1 EXCEPT ![r][src_eapi_service] = Dir] ELSE f1
      f3 == IF b.rpm THEN [f2 EXCEPT ![r][SrcRpm] = File(<<>>)] ELSE f2
      f4 == IF b.plugin THEN [f3 EXCEPT ![r][src_eapi_plugin] = Dir] ELSE f3
  IN IF b.whl THEN [f4 EXCEPT ![r][SrcWhl] = File(<<>>)] ELSE f4

\* shutil.copytree(src, dest, dirs_exist_ok=True) of a tree holding at most
\* the one file srcFile, which lands at destFile.
copytree_ok(f, r, src, dest) == is_dir(f, r, src) /\ can_mkdir(f, r, dest)

copytree(f, r, src, dest, srcFile, destFile) ==
  LET f1 == mkdir(f, r, dest) IN
  IF f1[r][srcFile].kind # "absent"
    THEN [f1 EXCEPT ![r][destFile] = f1[r][srcFile]]
    ELSE f1

\* The whole function: the trees afterwards, whether it returned, and
\* whether the extraction wrote outside script_dir/build.
prepare_enterprise_bundle(f, b, filter) ==
  LET r == "script_dir"
      x == extractall(f, b)
      c1 == copytree(x, r, src_eapi_service, dest_eapi_service,
                     SrcRpm, raas_rpm_paths)
      c2 == copytree(c1, r, src_eapi_plugin, dest_eapi_plugin,
                     SrcWhl, master_plugin_paths)
  IN IF ~b.present \/ b.corrupt THEN [fs |-> f, ok |-> FALSE, escaped |-> FALSE]
     ELSE IF extraction_refused(b, filter)
       THEN [fs |-> f, ok |-> FALSE, escaped |-> FALSE]
     ELSE IF ~can_mkdir(f, r, "build/sse-installer")
       THEN [fs |-> f, ok |-> FALSE, escaped |-> b.escape]
     ELSE IF ~copytree_ok(x, r, src_eapi_service, dest_eapi_service)
       THEN [fs |-> x, ok |-> FALSE, escaped |-> b.escape]
     ELSE IF ~copytree_ok(c1, r, src_eapi_plugin, dest_eapi_plugin)
       THEN [fs |-> c1, ok |-> FALSE, escaped |-> b.escape]
     ELSE [fs |-> c2, ok |-> TRUE, escaped |-> b.escape]

(***************************************************************************)
(* create_symlink (prep.py lines 325-350), under script_dir                *)
(***************************************************************************)
\* Mutant: the target is never looked at.
TargetNeverMissing(f, target) == FALSE

\* Line 337: the target must exist.
target_missing(f, target) == ~exists(f, "script_dir", target)

\* Mutant: only Path.exists() is asked, which a dangling link fails.
AlreadyPresentFollowsLinks(f, link_name) == exists(f, "script_dir", link_name)

\* Line 341: the link name is taken, by a link or by anything else.
already_present(f, link_name) ==
  is_symlink(f, "script_dir", link_name) \/ exists(f, "script_dir", link_name)

\* os.symlink(target_path, link_path)
symlink(f, target, link_name) ==
  [f EXCEPT !["script_dir"][link_name] = Link(target, <<>>)]

\* os.symlink raises OSError when the name is taken (lines 348-350).
symlink_fails(f, link_name) == f["script_dir"][link_name].kind # "absent"

create_symlink(f, target, link_name) ==
  IF target_missing(f, target) THEN [fs |-> f, ok |-> FALSE]
  ELSE IF already_present(f, link_name) THEN [fs |-> f, ok |-> TRUE]
  ELSE IF symlink_fails(f, link_name) THEN [fs |-> f, ok |-> FALSE]
  ELSE [fs |-> symlink(f, target, link_name), ok |-> TRUE]

(***************************************************************************)
(* prompt_docker_compose (prep.py lines 352-385)                           *)
(***************************************************************************)
\* str.lower() of a token.
lower_token(t) ==
  CASE t = "Y" -> "y" [] t = "YES" -> "yes" [] t = "N" -> "n"
    [] t = "NO" -> "no" [] t = "No" -> "no" [] OTHER -> t

lower(s) == [i \in DOMAIN s |-> lower_token(s[i])]

\* What can be typed at the prompt; EOF is end of input.
Answers ==
  { <<"y">>, <<" ", "YES", " ">>, <<"No">>, <<"maybe">>, <<>>, EOF }

\* Mutant: non-interactive mode confirms whether or not auto_confirm is set.
UserInputConfirmsUnasked(non_interactive, auto_confirm, typed) ==
  IF non_interactive THEN <<"y">>
  ELSE IF typed = EOF THEN <<>> ELSE lower(strip(typed))

\* Lines 361-374: the answer acted on, <<>> when the function returns
\* before looking at one.
user_input(non_interactive, auto_confirm, typed) ==
  IF non_interactive THEN (IF auto_confirm THEN <<"y">> ELSE <<>>)
  ELSE IF typed = EOF THEN <<>> ELSE lower(strip(typed))

\* Line 376: compose up -d runs on y or yes only.
launch_runs(non_interactive, auto_confirm, typed) ==
  user_input(non_interactive, auto_confirm, typed) \in { <<"y">>, <<"yes">> }

(***************************************************************************)
(* Workspaces a run can start from                                         *)
(***************************************************************************)
MaxOdd == 1

MaxCalls == 2

Empty == [p \in Paths |-> Absent]

\* A fresh checkout: the four link targets and nothing generated.
Checkout ==
  [p \in Paths |->
     IF p \in {OSS_COMPOSE_FILE, ENTERPRISE_COMPOSE_FILE} THEN File(<<>>)
     ELSE IF p \in LinkTargets THEN Dir
     ELSE Absent]

\* A workspace after use: every managed path there, as what it is meant to
\* be, the links set for the given edition.
Used(edition) ==
  [p \in Paths |->
     IF p \in ManagedDirs \/ p \in {src_eapi_service, src_eapi_plugin} THEN Dir
     ELSE IF p = ENV_FILE
       THEN File(<< <<"SALT_VERSION", "=", "3005">>, <<"FOO", "=", "bar">> >>)
     ELSE IF p \in ManagedFiles \/ p \in BundlePaths THEN File(<<>>)
     ELSE IF p \in ManagedLinks THEN Link(SYMLINKS[p][edition], <<>>)
     ELSE Checkout[p]]

\* Texts a configuration file may hold before a run.
EnvTexts ==
  { << <<"FOO", "=", "bar">> >>,
    << <<"SALT_VERSION", "=", "3005">>, <<" ", "FOO", "=", "a", "=", "b", " ">> >>,
    << <<"#", " ", "note">>, <<"FOO", "=">>, <<"FOO", "=", "bar">> >> }

\* What may sit at a path: anything, whatever the script means to find.
AnyNodes ==
  [p \in Paths |->
     IF p \in ManagedLinks
       THEN {Absent, File(<<>>), Dir}
              \cup {Link(t, <<>>) : t \in LinkTargets \cup ExtDests}
     ELSE IF p = ENV_FILE
       THEN {Absent, Dir, Link("nowhere", <<>>), Link("ext_dir", <<>>)}
              \cup {File(c) : c \in EnvTexts}
              \cup {Link("ext_file", c) : c \in EnvTexts}
     ELSE IF p \in ManagedDirs \cup ManagedFiles
       THEN {Absent, Dir, File(<<>>)} \cup {Link(t, <<>>) : t \in ExtDests}
     ELSE IF p \in {OSS_COMPOSE_FILE, ENTERPRISE_COMPOSE_FILE}
       THEN {Absent, File(<<>>)}
     ELSE IF p \in LinkTargets \cup {src_eapi_service, src_eapi_plugin}
       THEN {Absent, Dir}
     ELSE {Absent, File(<<>>)}]

\* The deviations a run of the script is started on.  Under script_dir: a
\* link name taken by a file, a directory or a link (to either edition's
\* target, or dangling), a target gone, a configuration file of any kind, a
\* build directory replaced by a file or a link.  In the directory the
\* script is started from, when that is another one: a configuration file,
\* a compose.yaml, a build directory replaced by a file.
RunNodes ==
  [r \in Roots |->
     [p \in Paths |->
        IF r = "script_dir" THEN
          IF p \in ManagedLinks
            THEN {Absent, File(<<>>), Dir, Link("nowhere", <<>>),
                  Link(SYMLINKS[p].oss, <<>>), Link(SYMLINKS[p].enterprise, <<>>)}
          ELSE IF p = ENV_FILE
            THEN {Absent, Dir, Link("nowhere", <<>>)} \cup {File(c) : c \in EnvTexts}
          ELSE IF p \in LinkTargets THEN {Absent}
          ELSE IF p \in {"build/sse-installer", dest_eapi_service, dest_eapi_plugin}
            THEN {Absent, File(<<>>), Link("ext_dir", <<>>)}
          ELSE {}
        ELSE
          IF p = ENV_FILE THEN {Dir} \cup {File(c) : c \in EnvTexts}
          ELSE IF p = COMPOSE_FILE_NAME THEN {File(<<>>)}
          ELSE IF p = dest_eapi_service THEN {File(<<>>)}
          ELSE {}]]

\* In a direct call one tree matters, where anything may sit at any path.
AnyNodesAt(root) == [r \in Roots |-> IF r = root THEN AnyNodes ELSE [p \in Paths |-> {}]]

\* The trees that differ from one of the given ones at up to n paths, each
\* changed to one of the given nodes.
Deviations(nodes) ==
  UNION {{<<r, p, x>> : x \in nodes[r][p]} : <<r, p>> \in Roots \X Paths}

RECURSIVE Variants(_, _, _)
Variants(S, nodes, n) ==
  IF n = 0 THEN S
  ELSE Variants(S \cup {[f EXCEPT ![d[1]][d[2]] = d[3]] :
                          <<f, d>> \in S \X Deviations(nodes)},
                nodes, n - 1)

Workspaces(bases, nodes, n) == {f \in Variants(bases, nodes, n) : WellFormed(f)}

\* The bases: the script directory as checked out or as a run left it; the
\* other directory, when the script is started from there, empty.
Bases(trees) == {[r \in Roots |-> IF r = "script_dir" THEN t ELSE Empty] : t \in trees}

InitArgs ==
  [clean : BOOLEAN, enterprise : BOOLEAN, non_interactive : BOOLEAN,
   auto_confirm : BOOLEAN, salt_version : {DEFAULT_SALT_VERSION},
   credentials : {<< <<K_POSTGRES_USER, DEFAULT_POSTGRES_USER>> >>}]

\* The trees relative paths and script_dir paths live in.
RootsOf(c) == IF c = "script_dir" THEN {"script_dir"} ELSE Roots

(***************************************************************************)
(* main (prep.py lines 450-530): one run of the script                     *)
(***************************************************************************)
Init ==
  /\ cwd \in Roots
  /\ fs \in Workspaces(Bases({Checkout, Used("oss"), Used("enterprise")}),
                       [r \in Roots |-> IF r \in RootsOf(cwd) THEN RunNodes[r]
                                         ELSE [p \in Paths |-> {}]],
                       MaxOdd)
  /\ args \in InitArgs
  /\ pc = "check_dependencies"
  /\ exitCode = -1
  /\ bundle = NoBundle
  /\ fs0 = fs
  /\ env_vars = <<>>
  /\ calls = <<>>
  /\ teardowns = <<>>
  /\ launches = <<>>
  /\ prompts = 0
  /\ before = fs
  /\ deps = "unchecked"
  /\ steps = <<>>
  /\ answers = <<>>
  /\ escaped = FALSE
  /\ interrupted = "no"

Exit(code) == pc' = "exit" /\ exitCode' = code

\* Mutant: both handlers link the open-source targets.
EditionAlwaysOss == "oss"

\* The edition whose targets the running handler links (lines 402-403 for
\* handle_oss_mode, 431-432 for handle_enterprise_mode).
edition == IF args.enterprise THEN "enterprise" ELSE "oss"

\* Mutant: the Enterprise handler fetches the bundle before it cleans.
HandlerStepsBundleFirst(clean, enterprise) ==
  IF clean THEN <<"clean_environment">>
  ELSE IF enterprise
    THEN <<"prepare_enterprise_bundle", "clean_environment", "write_env_file",
           "create_symlink_1", "create_symlink_2", "print_file_contents",
           "prompt_docker_compose">>
  ELSE <<"clean_environment", "write_env_file", "create_symlink_1",
         "create_symlink_2", "print_file_contents", "prompt_docker_compose">>

\* The mode main dispatches to (lines 509-530): --clean is tested first,
\* then --enterprise; the parser (lines 457-495) has no other mode flag.
dispatch(clean, enterprise) ==
  IF clean THEN "clean-only" ELSE IF enterprise THEN "enterprise" ELSE "oss"

\* The calls main makes after check_dependencies, in program order: the
\* clean of lines 509-512, or the body of handle_enterprise_mode (lines
\* 419-435), or the body of handle_oss_mode (lines 398-406).
handler_steps(clean, enterprise) ==
  LET mode == dispatch(clean, enterprise) IN
  IF mode = "clean-only" THEN <<"clean_environment">>
  ELSE IF mode = "enterprise"
    THEN <<"clean_environment", "prepare_enterprise_bundle", "write_env_file",
           "create_symlink_1", "create_symlink_2", "print_file_contents",
           "prompt_docker_compose">>
  ELSE <<"clean_environment", "write_env_file", "create_symlink_1",
         "create_symlink_2", "print_file_contents", "prompt_docker_compose">>

main_steps(clean, enterprise) ==
  <<"check_dependencies">> \o handler_steps(clean, enterprise)

\* The call that follows `step` when it returns; "exit" after the last one
\* (the sys.exit(0) of lines 512, 522 and 530).
step_after(step, clean, enterprise) ==
  LET s == main_steps(clean, enterprise)
      i == CHOOSE k \in 1..Len(s) : s[k] = step
  IN IF i = Len(s) THEN "exit" ELSE s[i + 1]

\* The step at pc returns: main goes on to the next call or ends with 0.
Return ==
  LET n == step_after(pc, args.clean, args.enterprise) IN
  IF n = "exit" THEN Exit(0) ELSE pc' = n /\ exitCode' = exitCode

\* What check_dependencies can find: both commands answer, shutil.which
\* finds no docker (line 113), or `docker compose version` fails or is not
\* found (lines 122, 125).
DependencyStates == {"ok", "docker_missing", "compose_missing"}

\* Mutant: the check never ends the run.
DependenciesNeverMissing(found) == FALSE

\* The conditions under which check_dependencies calls sys.exit(1).
dependencies_missing(found) == found # "ok"

\* check_dependencies (lines 104-127): docker and its compose subcommand
\* answer, or the run ends with status 1.
CheckDependencies ==
  /\ pc = "check_dependencies"
  /\ \E found \in DependencyStates :
       /\ deps' = found
       /\ IF dependencies_missing(found) THEN Exit(1) ELSE Return
  /\ steps' = Append(steps, pc)
  /\ before' = fs
  /\ UNCHANGED <<fs, cwd, args, bundle, fs0, env_vars, calls, teardowns,
                 launches, prompts, answers, escaped, interrupted>>

\* Mutant: a failed compose command ends the run.
CommandFailureAborts(result) == result = "failed"

\* Whether a compose command that exits non-zero ends the function: the
\* CalledProcessError is caught and logged (lines 150-151 and 379-380).
command_failure_aborts(result) == FALSE

\* clean_environment as main and the two handlers call it (lines 509-512,
\* 398, 419): the teardown when compose.yaml exists, then the removals.
CleanEnvironment ==
  /\ pc = "clean_environment"
  /\ \E result \in IF TeardownRuns(fs, cwd) THEN {"ok", "failed"} ELSE {"none"} :
       /\ teardowns' = IF result = "none" THEN teardowns
                       ELSE Append(teardowns, result)
       /\ IF command_failure_aborts(result)
            THEN fs' = fs /\ Exit(1)
            ELSE fs' = clean_environment(fs, cwd) /\ Return
  /\ steps' = Append(steps, pc)
  /\ before' = fs
  /\ UNCHANGED <<cwd, args, bundle, fs0, env_vars, calls, launches, prompts,
                 deps, answers, escaped, interrupted>>

\* prepare_enterprise_bundle (line 420); the archive is drawn where the
\* glob reads it.
PrepareEnterpriseBundle ==
  /\ pc = "prepare_enterprise_bundle"
  /\ \E b \in Bundles, filter \in ExtractionFilters :
       LET res == prepare_enterprise_bundle(fs, b, filter) IN
       /\ bundle' = b
       /\ fs' = res.fs
       /\ escaped' = res.escaped
       /\ IF res.ok THEN Return ELSE Exit(1)
  /\ steps' = Append(steps, pc)
  /\ before' = fs
  /\ UNCHANGED <<cwd, args, fs0, env_vars, calls, teardowns, launches, prompts,
                 deps, answers, interrupted>>

\* What can be typed at a getpass prompt.
Typed == { <<"p", "=", "w", " ">>, EOF }

\* write_env_file as the handlers call it (lines 399, 428).
WriteEnvFile ==
  /\ pc = "write_env_file"
  /\ \E postgres_pass \in postgres_answers(args.enterprise, args.credentials, Typed) :
     \E redis_password \in redis_answers(args.enterprise, args.credentials,
                                         postgres_pass, Typed) :
       LET res == write_env_file(fs, cwd, args.salt_version, args.enterprise,
                                 IF args.enterprise THEN args.credentials ELSE <<>>,
                                 postgres_pass, redis_password)
       IN /\ fs' = res.fs
          /\ env_vars' = res.env_vars
          /\ prompts' = prompts + getpass_calls(args.enterprise, args.credentials,
                                                postgres_pass)
          /\ IF res.ok THEN Return ELSE Exit(1)
  /\ steps' = Append(steps, pc)
  /\ before' = fs
  /\ UNCHANGED <<cwd, args, bundle, fs0, calls, teardowns, launches, deps,
                 answers, escaped, interrupted>>

\* create_symlink for one of the two links (lines 402-403, 431-432).
CreateSymlink(link_name, here) ==
  /\ pc = here
  /\ LET res == create_symlink(fs, SYMLINKS[link_name][edition], link_name) IN
       /\ fs' = res.fs
       /\ IF res.ok THEN Return ELSE Exit(1)
  /\ steps' = Append(steps, pc)
  /\ before' = fs
  /\ UNCHANGED <<cwd, args, bundle, fs0, env_vars, calls, teardowns, launches,
                 prompts, deps, answers, escaped, interrupted>>

CreateSymlinkCompose == CreateSymlink(COMPOSE_FILE_NAME, "create_symlink_1")

CreateSymlinkMasterD == CreateSymlink(MASTER_D, "create_symlink_2")

\* print_file_contents (lines 264-282): reads, changes nothing.
PrintFileContents ==
  /\ pc = "print_file_contents"
  /\ Return
  /\ steps' = Append(steps, pc)
  /\ before' = fs
  /\ UNCHANGED <<fs, cwd, args, bundle, fs0, env_vars, calls, teardowns,
                 launches, prompts, deps, answers, escaped, interrupted>>

\* prompt_docker_compose (lines 406, 435), after which main ends with 0.
PromptDockerCompose ==
  /\ pc = "prompt_docker_compose"
  /\ \E typed \in IF args.non_interactive THEN {<<>>} ELSE Answers :
       /\ prompts' = IF args.non_interactive THEN prompts ELSE prompts + 1
       /\ answers' = IF args.non_interactive THEN answers ELSE Append(answers, typed)
       /\ \E result \in IF launch_runs(args.non_interactive, args.auto_confirm, typed)
                          THEN {"ok", "failed"} ELSE {"none"} :
            /\ launches' = IF result = "none" THEN launches
                            ELSE Append(launches, result)
            /\ IF command_failure_aborts(result) THEN Exit(1) ELSE Return
  /\ steps' = Append(steps, pc)
  /\ before' = fs
  /\ UNCHANGED <<fs, cwd, args, bundle, fs0, env_vars, calls, teardowns, deps,
                 escaped, interrupted>>

Next ==
  \/ CheckDependencies
  \/ CleanEnvironment
  \/ PrepareEnterpriseBundle
  \/ WriteEnvFile
  \/ CreateSymlinkCompose
  \/ CreateSymlinkMasterD
  \/ PrintFileContents
  \/ PromptDockerCompose

Spec == Init /\ [][Next]_vars

TypeOK ==
  /\ WellFormed(fs)
  /\ pc \in {"check_dependencies", "clean_environment", "prepare_enterprise_bundle",
             "write_env_file", "create_symlink_1", "create_symlink_2",
             "print_file_contents", "prompt_docker_compose", "exit",
             "direct_call"}
  /\ exitCode \in {-1, 0, 1}
  /\ (pc = "exit") = (exitCode # -1)

(***************************************************************************)
(* clean_environment called on its own, repeatedly, on any workspace       *)
(***************************************************************************)
\* A record of one direct call: the function, what it was given and typed,
\* and whether it returned.
Call(fn, salt_version, postgres_pass, redis_password, ok) ==
  [fn |-> fn, salt_version |-> salt_version, postgres_pass |-> postgres_pass,
   redis_password |-> redis_password, ok |-> ok]

NoArgs ==
  [clean |-> TRUE, enterprise |-> FALSE, non_interactive |-> TRUE,
   auto_confirm |-> FALSE, salt_version |-> DEFAULT_SALT_VERSION,
   credentials |-> <<>>]

CleanInit ==
  /\ cwd \in Roots
  /\ fs \in Workspaces(Bases({Checkout, Used("oss")})
                         \cup {[r \in Roots |-> IF r = cwd THEN Used("enterprise")
                                                ELSE Checkout]},
                       AnyNodesAt(cwd), MaxOdd)
  /\ args = NoArgs
  /\ pc = "direct_call"
  /\ exitCode = -1
  /\ bundle = NoBundle
  /\ fs0 = fs
  /\ env_vars = <<>>
  /\ calls = <<>>
  /\ teardowns = <<>>
  /\ launches = <<>>
  /\ prompts = 0
  /\ before = fs
  /\ deps = "unchecked"
  /\ steps = <<>>
  /\ answers = <<>>
  /\ escaped = FALSE
  /\ interrupted = "no"

CleanCall ==
  /\ pc = "direct_call"
  /\ Len(calls) < MaxCalls
  /\ \E result \in IF TeardownRuns(fs, cwd) THEN {"ok", "failed"} ELSE {"none"} :
       /\ teardowns' = IF result = "none" THEN teardowns
                       ELSE Append(teardowns, result)
       /\ IF command_failure_aborts(result)
            THEN /\ fs' = fs
                 /\ calls' = Append(calls, Call("clean_environment",
                                                <<>>, <<>>, <<>>, FALSE))
                 /\ Exit(1)
            ELSE /\ fs' = clean_environment(fs, cwd)
                 /\ calls' = Append(calls, Call("clean_environment",
                                                <<>>, <<>>, <<>>, TRUE))
                 /\ UNCHANGED <<pc, exitCode>>
  /\ before' = fs
  /\ UNCHANGED <<cwd, args, bundle, fs0, env_vars, launches, prompts,
                 deps, steps, answers, escaped, interrupted>>

CleanNext == CleanCall

CleanSpec == CleanInit /\ [][CleanNext]_vars

\* C1: two clean_environment calls in succession: the second returns like
\* the first (no exit, no exception) and leaves the workspace exactly as
\* the first call left it.
CleanIdempotent ==
  Len(calls) >= 2 => (fs = before /\ pc = "direct_call" /\ exitCode = -1)

\* Witness of C1: a second call was made on a workspace whose first clean
\* removed something and left something behind.
CleanIdempotentWitness ==
  /\ Len(calls) = 2
  /\ before # fs0
  /\ \E p \in Paths : fs[cwd][p].kind # "absent" /\ p \notin LinkTargets

\* C2 as claimed: after a clean nothing is left at any managed path.
CleanLeavesNothing ==
  Len(calls) >= 1 =>
    \A p \in ManagedDirs \cup ManagedFiles \cup ManagedLinks :
      fs[cwd][p].kind = "absent"

\* C2 as amended: after a clean no managed directory path is a directory
\* of its own, no managed file path resolves to a regular file and no
\* managed link name is a symbolic link.  Whatever else held a managed name
\* (a file or a link at a directory name, a directory or a dangling link at
\* a file name, a file or a directory at a link name) is still there,
\* unless it lay inside a managed directory that was removed.
CleanRemovesManaged ==
  Len(calls) >= 1 =>
    /\ \A p \in ManagedDirs : fs[cwd][p].kind # "dir"
    /\ \A p \in ManagedFiles : ~is_file(fs, cwd, p)
    /\ \A p \in ManagedLinks : ~is_symlink(fs, cwd, p)
    /\ \A p \in ManagedDirs \cup ManagedFiles \cup ManagedLinks :
         fs[cwd][p] # before[cwd][p] => fs[cwd][p] = Absent
    /\ \A p \in ManagedDirs :
         before[cwd][p].kind \in {"file", "symlink"} => fs[cwd][p] = before[cwd][p]
    /\ \A p \in ManagedFiles :
         (/\ ~is_file(before, cwd, p)
          /\ ~\E d \in ManagedDirs : IsBelow(p, d) /\ before[cwd][d].kind = "dir")
         => fs[cwd][p] = before[cwd][p]
    /\ \A p \in ManagedLinks :
         before[cwd][p].kind # "symlink" => fs[cwd][p] = before[cwd][p]

\* Witness of C2: a clean removed a directory, a file and a link and left
\* an object of another kind at a managed name.
CleanRemovesManagedWitness ==
  /\ Len(calls) = 1
  /\ \E p \in ManagedDirs : before[cwd][p].kind = "dir"
  /\ \E p \in ManagedFiles : is_file(before, cwd, p)
  /\ \E p \in ManagedLinks : is_symlink(before, cwd, p)
  /\ \E p \in ManagedDirs \cup ManagedFiles \cup ManagedLinks :
       fs[cwd][p].kind # "absent"

(***************************************************************************)
(* Properties of one run                                                   *)
(***************************************************************************)
\* handle_oss_mode or handle_enterprise_mode ran to its end.
HandlerCompleted ==
  pc = "exit" /\ exitCode = 0 /\ ~args.clean /\ interrupted = "no"

\* The link create_symlink is about to be called for, "" at other steps.
LinkAtStep ==
  IF pc = "create_symlink_1" THEN COMPOSE_FILE_NAME
  ELSE IF pc = "create_symlink_2" THEN MASTER_D
  ELSE ""

\* The edition the command line asks for.
AskedEdition == IF args.enterprise THEN "enterprise" ELSE "oss"

\* C3 as claimed: when a handler completes, both managed link paths are
\* symbolic links that resolve to something.
LinksResolveAfterPrepare ==
  HandlerCompleted =>
    \A l \in ManagedLinks :
      is_symlink(fs, "script_dir", l) /\ exists(fs, "script_dir", l)

\* C3 as amended: when a handler completes, the edition's target of each
\* managed link exists, and the link path is either a symbolic link to that
\* target or still the object that held the name before the run, which is
\* never a symbolic link when the script was started in its own directory.
LinksSetOrKeptAfterPrepare ==
  HandlerCompleted =>
    \A l \in ManagedLinks :
      /\ exists(fs, "script_dir", SYMLINKS[l][AskedEdition])
      /\ \/ fs["script_dir"][l] = Link(SYMLINKS[l][AskedEdition], <<>>)
         \/ /\ fs["script_dir"][l] = fs0["script_dir"][l]
            /\ fs0["script_dir"][l].kind # "absent"
            /\ cwd = "script_dir" => fs0["script_dir"][l].kind # "symlink"

\* Witness of C3: an Enterprise run started in the script directory
\* completed; it replaced a stale link by one to the Enterprise target and
\* left a regular file at the other link name.
LinksSetOrKeptWitness ==
  /\ HandlerCompleted
  /\ args.enterprise
  /\ cwd = "script_dir"
  /\ \E l \in ManagedLinks :
       /\ fs0["script_dir"][l] = Link(SYMLINKS[l].oss, <<>>)
       /\ fs["script_dir"][l] = Link(SYMLINKS[l].enterprise, <<>>)
  /\ \E l \in ManagedLinks :
       fs["script_dir"][l].kind = "file" /\ fs0["script_dir"][l].kind = "file"

\* C4: create_symlink called with a target that does not exist ends the
\* run with status 1 and changes nothing, whether the link name is free or
\* taken; and a link that a step creates leads to a target that existed
\* when the step began.
NoDanglingLinkCreated ==
  [][ /\ (LinkAtStep # "" /\ target_missing(fs, SYMLINKS[LinkAtStep][edition]))
         => (pc' = "exit" /\ exitCode' = 1 /\ fs' = fs)
      /\ \A l \in ManagedLinks :
           (fs'["script_dir"][l] # fs["script_dir"][l]
              /\ fs'["script_dir"][l].kind = "symlink")
           => exists(fs, "script_dir", fs'["script_dir"][l].to) ]_vars

\* Witness of C4: create_symlink ended the run because the target was
\* missing while the link name was taken, and left the trees as they were.
NoDanglingLinkWitness ==
  /\ pc = "exit" /\ exitCode = 1 /\ env_vars # <<>>
  /\ fs = before
  /\ \E l \in ManagedLinks :
       /\ target_missing(fs, SYMLINKS[l][edition])
       /\ fs["script_dir"][l].kind # "absent"

\* C5: create_symlink called for a name that is taken (by a link, dangling
\* or not, a file or a directory) while the target exists returns without
\* ending the run and leaves both trees as they were.
TakenNameLeftAlone ==
  [][ (/\ LinkAtStep # ""
       /\ ~target_missing(fs, SYMLINKS[LinkAtStep][edition])
       /\ fs["script_dir"][LinkAtStep].kind # "absent")
      => (pc' # "exit" /\ exitCode' = -1 /\ fs' = fs) ]_vars

\* Witness of C5: the first create_symlink returned although compose.yaml
\* was a dangling link, which is still there.
TakenNameWitness ==
  /\ pc = "create_symlink_2"
  /\ fs = before
  /\ fs["script_dir"][COMPOSE_FILE_NAME] = Link("nowhere", <<>>)

\* The mapping a configuration file holds, as write_env_file reads it.
env_of(f) == IF is_file(f, cwd, ENV_FILE) THEN existing_env(f, cwd) ELSE <<>>

\* C6 as claimed: a key the configuration file held before the run is in
\* the file, with its value, when a handler completes, unless the run
\* computed that key.
KeysSurviveRun ==
  HandlerCompleted =>
    \A k \in Keys(env_of(fs0)) :
      ~HasKey(env_vars, k) =>
        (HasKey(env_of(fs), k) /\ Get(env_of(fs), k) = Get(env_of(fs0), k))

\* The run ended in prepare_enterprise_bundle or before, with no archive.
FailedWithoutBundle ==
  /\ pc = "exit" /\ exitCode = 1
  /\ args.enterprise /\ ~args.clean
  /\ ~bundle.present

\* C8 as claimed: an Enterprise run without an archive ends with the
\* configuration file as it was before the run.
NoBundleNoEnvChange ==
  FailedWithoutBundle => fs[cwd][ENV_FILE] = fs0[cwd][ENV_FILE]

\* C9 as claimed: in Enterprise mode no configuration file is written
\* without the key of either artifact: write_env_file returns only when
\* both globs matched.
MissingArtifactIsFatal ==
  (args.enterprise /\ ~args.clean /\ env_vars # <<>>) =>
    (HasKey(env_vars, K_RAAS_RPM_NAME) /\ HasKey(env_vars, K_MASTER_PLUGIN_NAME))

\* C10 as claimed: a non-interactive Enterprise run that was given no
\* passwords never waits on a prompt and never gets to write the
\* configuration file.
NonInteractiveNeverPrompts ==
  (args.enterprise /\ ~args.clean /\ args.non_interactive
     /\ ~credentials_given(args.credentials))
  => (prompts = 0 /\ env_vars = <<>>)

(***************************************************************************)
(* write_env_file called on its own, repeatedly, with no clean in between  *)
(***************************************************************************)
Versions == { DEFAULT_SALT_VERSION, <<"3007.1", " ">> }

Passwords == { <<"pw">>, <<"p", "=", "w", " ">>, EOF }

CredentialSets ==
  { <<>>,
    << <<K_POSTGRES_USER, DEFAULT_POSTGRES_USER>> >>,
    << <<K_POSTGRES_USER, <<"admin">> >>, <<K_POSTGRES_PASS, <<"s", " ">> >>,
       <<K_REDIS_PASSWORD, <<"r", "=", "1">> >> >> }

\* Only the configuration file and the globbed artifacts matter here.
EnvNodes ==
  [p \in Paths |->
     IF p = ENV_FILE THEN AnyNodes[p]
     ELSE IF p \in {raas_rpm_paths, master_plugin_paths} THEN {Absent}
     ELSE {}]

EnvInit ==
  /\ cwd \in Roots
  /\ fs \in Workspaces({[r \in Roots |-> IF r = cwd THEN t ELSE Checkout] :
                          t \in {Checkout, Used("enterprise")}},
                       [r \in Roots |-> IF r = cwd THEN EnvNodes ELSE [p \in Paths |-> {}]],
                       MaxOdd)
  /\ args \in [clean : {FALSE}, enterprise : BOOLEAN, non_interactive : {FALSE},
               auto_confirm : {FALSE}, salt_version : {DEFAULT_SALT_VERSION},
               credentials : CredentialSets]
  /\ pc = "direct_call"
  /\ exitCode = -1
  /\ bundle = NoBundle
  /\ fs0 = fs
  /\ env_vars = <<>>
  /\ calls = <<>>
  /\ teardowns = <<>>
  /\ launches = <<>>
  /\ prompts = 0
  /\ before = fs
  /\ deps = "unchecked"
  /\ steps = <<>>
  /\ answers = <<>>
  /\ escaped = FALSE
  /\ interrupted = "no"

WriteEnvCall ==
  /\ pc = "direct_call"
  /\ Len(calls) < MaxCalls
  /\ \E salt_version \in Versions :
     \E postgres_pass \in postgres_answers(args.enterprise, args.credentials, Passwords) :
     \E redis_password \in redis_answers(args.enterprise, args.credentials,
                                         postgres_pass, Passwords) :
       LET res == write_env_file(fs, cwd, salt_version, args.enterprise,
                                 args.credentials, postgres_pass, redis_password)
       IN /\ fs' = res.fs
          /\ env_vars' = res.env_vars
          /\ prompts' = prompts + getpass_calls(args.enterprise, args.credentials,
                                                postgres_pass)
          /\ calls' = Append(calls, Call("write_env_file", salt_version,
                                         postgres_pass, redis_password, res.ok))
          /\ IF res.ok THEN UNCHANGED <<pc, exitCode>> ELSE Exit(1)
  /\ before' = fs
  /\ UNCHANGED <<cwd, args, bundle, fs0, teardowns, launches, deps, steps, answers,
                 escaped, interrupted>>

EnvNext == WriteEnvCall

EnvSpec == EnvInit /\ [][EnvNext]_vars

\* The mapping in the text of a configuration file, taken as it stands:
\* each line with an '=' is key=value, split at the first '=', and a later
\* line of a key wins.
RECURSIVE text_env(_, _)
text_env(lines, d) ==
  IF lines = <<>> THEN d
  ELSE text_env(Tail(lines),
                IF HasEq(Head(lines))
                  THEN Put(d, split1(Head(lines))[1], split1(Head(lines))[2])
                  ELSE d)

file_env(f) == text_env(text_of(f, cwd, ENV_FILE, MaxHops), <<>>)

\* The latest two calls were write_env_file calls that returned, given the
\* same passwords and different versions.
TwoWritesVersionsDiffer ==
  /\ Len(calls) >= 2
  /\ LET c1 == calls[Len(calls) - 1]
         c2 == calls[Len(calls)]
     IN /\ c1.fn = "write_env_file" /\ c2.fn = "write_env_file"
        /\ c1.ok /\ c2.ok
        /\ c1.postgres_pass = c2.postgres_pass
        /\ c1.redis_password = c2.redis_password
        /\ c1.salt_version # c2.salt_version

\* C7: after two write_env_file calls with the same edition, artifacts and
\* credentials and different versions, the file holds the keys it held
\* after the first call, each but SALT_VERSION with the value it had then,
\* and SALT_VERSION with the version of the second call.
MergeKeepsAllButVersion ==
  TwoWritesVersionsDiffer =>
    /\ Keys(file_env(fs)) = Keys(file_env(before))
    /\ \A k \in Keys(file_env(before)) \ {K_SALT_VERSION} :
         Get(file_env(fs), k) = Get(file_env(before), k)
    /\ Get(file_env(fs), K_SALT_VERSION) = calls[Len(calls)].salt_version

\* Witness of C7: two Enterprise calls with typed passwords, on a file that
\* came with a key of the user's, which both calls kept.
MergeKeepsWitness ==
  /\ TwoWritesVersionsDiffer
  /\ args.enterprise
  /\ prompts = 4
  /\ HasKey(file_env(fs0), <<"FOO">>)
  /\ HasKey(file_env(fs), <<"FOO">>)
  /\ HasKey(file_env(fs), K_RAAS_RPM_NAME)
  /\ Get(file_env(before), K_SALT_VERSION) # Get(file_env(fs), K_SALT_VERSION)

(***************************************************************************)
(* A run that SIGINT or SIGTERM may end (handle_signals, lines 437-448)    *)
(***************************************************************************)
\* The handler main installs first (line 454) logs and calls sys.exit(0).
\* Here the signal arrives while the step at pc is waiting or between two
\* steps: what the earlier steps did stays, the step itself has changed
\* nothing yet.
Signal ==
  /\ pc # "exit"
  /\ pc # "direct_call"
  /\ interrupted' = pc
  /\ Exit(0)
  /\ before' = fs
  /\ UNCHANGED <<fs, cwd, args, bundle, fs0, env_vars, calls, teardowns, launches,
                 prompts, deps, steps, answers, escaped>>

\* The lines on disk when SystemExit leaves the with block of lines 255-257
\* after `written` of the lines were written: open('w') has truncated the
\* file, and closing it flushes what was written.
interrupted_write(f, r, lines, written) ==
  open_w(f, r, ENV_FILE, SubSeq(lines, 1, written), MaxHops)

\* The signal arrives inside the loop that writes .env (lines 255-257): the
\* SystemExit the handler raises is not an Exception, so the except clause
\* of line 259 lets it pass, and the run ends with status 0.
SignalInWrite ==
  /\ pc = "write_env_file"
  /\ \E postgres_pass \in postgres_answers(args.enterprise, args.credentials, Typed) :
     \E redis_password \in redis_answers(args.enterprise, args.credentials,
                                         postgres_pass, Typed) :
       LET credentials == IF args.enterprise THEN args.credentials ELSE <<>>
           new == compute_env_vars(fs, cwd, args.salt_version, args.enterprise,
                                   credentials, postgres_pass, redis_password)
           lines == format_env(merge_env(existing_env(fs, cwd), new))
       IN /\ ~getpass_failed(args.enterprise, credentials, postgres_pass,
                             redis_password)
          /\ ~read_fails(fs, cwd)
          /\ \E written \in 0..(Len(lines) - 1) :
               fs' = interrupted_write(fs, cwd, lines, written)
          /\ env_vars' = new
          /\ prompts' = prompts + getpass_calls(args.enterprise, args.credentials,
                                                postgres_pass)
  /\ interrupted' = pc
  /\ Exit(0)
  /\ steps' = Append(steps, pc)
  /\ before' = fs
  /\ UNCHANGED <<cwd, args, bundle, fs0, calls, teardowns, launches, deps,
                 answers, escaped>>

SignalNext == Next \/ Signal \/ SignalInWrite

SignalSpec == Init /\ [][SignalNext]_vars

\* C11 as claimed: when a signal ends the run, the process has exited and
\* the configuration file is whole: what it was when write_env_file was
\* entered, or the complete merged text write_env_file set out to write.
SignalLeavesEnvWhole ==
  interrupted # "no" =>
    /\ pc = "exit"
    /\ \/ fs[cwd][ENV_FILE] = before[cwd][ENV_FILE]
       \/ /\ interrupted = "write_env_file"
          /\ env_vars # <<>>
          /\ text_of(fs, cwd, ENV_FILE, MaxHops)
               = format_env(merge_env(existing_env(before, cwd), env_vars))

(***************************************************************************)
(* The launch decision, failures and the order of the steps                *)
(***************************************************************************)
\* C12: in a non-interactive run the launch step waits on no prompt and
\* reads no answer, and compose up -d has been invoked exactly once when
\* the handler has completed with auto_confirm set, and never otherwise.
NonInteractiveLaunch ==
  [][args.non_interactive =>
       /\ Len(launches') = IF HandlerCompleted' /\ args.auto_confirm THEN 1 ELSE 0
       /\ answers' = <<>>
       /\ pc = "prompt_docker_compose" => prompts' = prompts]_vars

\* Witness of C12: an Enterprise handler completed non-interactively with
\* auto_confirm set: the passwords were asked for, the launch was not.
NonInteractiveLaunchWitness ==
  /\ HandlerCompleted
  /\ args.non_interactive /\ args.auto_confirm /\ args.enterprise
  /\ Len(launches) = 1
  /\ prompts = 2
  /\ answers = <<>>

\* An answer prompt_docker_compose takes for neither yes nor no.
Unrecognized(typed) ==
  /\ typed # EOF
  /\ lower(strip(typed)) \notin { <<"y">>, <<"yes">>, <<"n">>, <<"no">> }

\* C13 as claimed: an unrecognized answer at the interactive launch prompt
\* leads back to the prompt: the run is still at prompt_docker_compose,
\* nothing launched and the run not ended.
UnrecognizedAnswerAsksAgain ==
  [][(/\ pc = "prompt_docker_compose"
      /\ ~args.non_interactive
      /\ answers' # answers
      /\ Unrecognized(answers'[Len(answers')]))
       => (pc' = "prompt_docker_compose" /\ launches' = launches)]_vars

\* C14: a compose command that exits non-zero does not end the run.  The
\* clean whose teardown failed leaves no managed directory, no managed
\* regular file and no managed link, and the run goes on to the next step
\* (or ends with 0 in clean-only mode); a launch that failed is followed by
\* exit status 0.
FailedCommandDoesNotAbort ==
  [][/\ (/\ pc = "clean_environment"
         /\ teardowns' # teardowns
         /\ teardowns'[Len(teardowns')] = "failed")
          => /\ \A d \in ManagedDirs : fs'[cwd][d].kind # "dir"
             /\ \A p \in ManagedFiles : ~is_file(fs', cwd, p)
             /\ \A l \in ManagedLinks : ~is_symlink(fs', cwd, l)
             /\ IF args.clean THEN pc' = "exit" /\ exitCode' = 0
                ELSE pc' = IF args.enterprise THEN "prepare_enterprise_bundle"
                           ELSE "write_env_file"
     /\ (/\ pc = "prompt_docker_compose"
         /\ launches' # launches
         /\ launches'[Len(launches')] = "failed")
          => (pc' = "exit" /\ exitCode' = 0)]_vars

\* Witness of C14: a handler completed with status 0 although both the
\* teardown and the launch failed, and the clean did remove the old link.
FailedCommandWitness ==
  /\ HandlerCompleted
  /\ teardowns = <<"failed">>
  /\ launches = <<"failed">>
  /\ is_symlink(fs0, cwd, COMPOSE_FILE_NAME)
  /\ is_file(fs0, cwd, ENV_FILE)

\* The fatal condition the step at pc meets, "" when it meets none: the
\* archive absent or unreadable or without an expected subtree (seen on
\* the archive the step draws and the trees it leaves), the link target
\* missing, the configuration path taken by something that is not a file.
FatalCondition ==
  IF pc = "prepare_enterprise_bundle"
    THEN (IF ~bundle'.present THEN "archive absent"
          ELSE IF bundle'.corrupt THEN "archive corrupt"
          ELSE IF \/ ~is_dir(fs', "script_dir", src_eapi_service)
                  \/ ~is_dir(fs', "script_dir", src_eapi_plugin)
            THEN "subtree missing"
          ELSE "")
  ELSE IF pc = "write_env_file"
    THEN (IF exists(fs, cwd, ENV_FILE) /\ ~is_file(fs, cwd, ENV_FILE)
            THEN "config unreadable" ELSE "")
  ELSE IF LinkAtStep # ""
    THEN (IF ~exists(fs, "script_dir", SYMLINKS[LinkAtStep][AskedEdition])
            THEN "target missing" ELSE "")
  ELSE ""

\* C15: a step that meets a fatal condition ends the run with a non-zero
\* status, no launch has been or is invoked, and no step is taken once the
\* run has ended, so the workspace stays as the failing step left it.
FatalStopsRun ==
  [][/\ pc # "exit"
     /\ FatalCondition # "" =>
          (pc' = "exit" /\ exitCode' = 1 /\ launches' = <<>>)
     /\ FatalCondition \in {"config unreadable", "target missing"} => fs' = fs]_vars

\* Witness of C15: the run ended with status 1 in write_env_file because
\* the configuration path is not a readable file, after the clean had
\* already changed the workspace.
FatalStopsRunWitness ==
  /\ pc = "exit" /\ exitCode = 1
  /\ steps # <<>> /\ steps[Len(steps)] = "write_env_file"
  /\ exists(fs, cwd, ENV_FILE) /\ ~is_file(fs, cwd, ENV_FILE)
  /\ fs = before
  /\ fs # fs0
  /\ launches = <<>>

\* C16: nothing is changed and no compose command is run before the
\* dependency check has passed, and when docker or its compose subcommand
\* is missing the run has ended with status 1 at that check, whatever the
\* mode: the trees are those the run started with, no teardown, no launch.
MissingDependencyStopsFirst ==
  /\ deps = "unchecked" => pc = "check_dependencies"
  /\ deps # "ok" =>
       (fs = fs0 /\ teardowns = <<>> /\ launches = <<>> /\ prompts = 0)
  /\ deps \in {"docker_missing", "compose_missing"} =>
       (pc = "exit" /\ exitCode = 1 /\ steps = <<"check_dependencies">>)

\* Witness of C16: a clean-only run of a used workspace (there is a
\* compose.yaml to tear down and a .env to remove) ended at the check.
MissingDependencyWitness ==
  /\ deps = "compose_missing"
  /\ args.clean
  /\ pc = "exit"
  /\ exists(fs, cwd, COMPOSE_FILE_NAME)
  /\ is_file(fs, cwd, ENV_FILE)

\* The step sequence C17 gives for a mode, after the dependency check.
ClaimedOrder ==
  <<"check_dependencies">> \o
  (IF args.clean THEN <<"clean_environment">>
   ELSE IF args.enterprise
     THEN <<"clean_environment", "prepare_enterprise_bundle", "write_env_file",
            "create_symlink_1", "create_symlink_2", "print_file_contents",
            "prompt_docker_compose">>
   ELSE <<"clean_environment", "write_env_file", "create_symlink_1",
          "create_symlink_2", "print_file_contents", "prompt_docker_compose">>)

\* C17: the steps a run has executed are always an initial part of the
\* fixed sequence of its mode (Clean, [Acquire bundle,] Materialize, Link
\* descriptor, Link data directory, display, Launch decision), one at a
\* time: the step running next is the next of the sequence, none skipped
\* or repeated, and a handler that completed executed the whole sequence.
StepsInFixedOrder ==
  /\ Len(steps) <= Len(ClaimedOrder)
  /\ steps = SubSeq(ClaimedOrder, 1, Len(steps))
  /\ pc # "exit" => (Len(steps) < Len(ClaimedOrder)
                      /\ pc = ClaimedOrder[Len(steps) + 1])
  /\ (pc = "exit" /\ exitCode = 0) => steps = ClaimedOrder

\* Witness of C17: an Enterprise handler ran all seven steps, and the
\* bundle step found a workspace the clean had changed.
StepsInFixedOrderWitness ==
  /\ HandlerCompleted
  /\ args.enterprise
  /\ Len(steps) = 8
  /\ bundle.present
  /\ \E p \in Paths : fs0[cwd][p].kind # "absent" /\ fs[cwd][p].kind = "absent"

\* The modes the flags can select: the range of dispatch over every
\* command line.
DispatchedModes == {dispatch(a.clean, a.enterprise) : a \in InitArgs}

\* C18 as claimed: the command lines dispatch to the four modes clean-only,
\* OSS, Enterprise and doctor, one each; a clean-only run makes no call but
\* the clean after the dependency check, and a doctor run makes no call
\* but the dependency check and changes nothing.
DispatchOneOfFour ==
  /\ DispatchedModes = {"clean-only", "oss", "enterprise", "doctor"}
  /\ dispatch(args.clean, args.enterprise) = "clean-only" =>
       /\ \A i \in DOMAIN steps : steps[i] \in {"check_dependencies", "clean_environment"}
       /\ launches = <<>>
  /\ dispatch(args.clean, args.enterprise) = "doctor" =>
       (steps \in {<<>>, <<"check_dependencies">>} /\ fs = fs0)

\* C19 as claimed: an archive with a member named outside the extraction
\* directory makes the bundle step end the run with a non-zero status, and
\* no file is ever created outside script_dir/build.
TraversalFailsClosed ==
  /\ ~escaped
  /\ bundle.escape => (pc = "exit" /\ exitCode = 1
                        /\ steps[Len(steps)] = "prepare_enterprise_bundle")

(***************************************************************************)
(* clean_environment and a link name taken by something else               *)
(***************************************************************************)
\* C20: a clean changes a managed link name (compose.yaml, data/master.d)
\* only when the name is a symbolic link: a regular file or a directory of
\* that name is the same object, with the same content, after the clean.
LinkNameOfOtherKindKept ==
  Len(calls) >= 1 =>
    \A l \in ManagedLinks :
      /\ before[cwd][l].kind \in {"file", "dir"} => fs[cwd][l] = before[cwd][l]
      /\ fs[cwd][l] # before[cwd][l] =>
           (before[cwd][l].kind = "symlink" /\ fs[cwd][l] = Absent)

\* Witness of C20: a clean that found a regular file named compose.yaml
\* (so the teardown ran too), removed other things and left the file.
LinkNameOfOtherKindWitness ==
  /\ Len(calls) >= 1
  /\ before[cwd][COMPOSE_FILE_NAME].kind = "file"
  /\ fs[cwd][COMPOSE_FILE_NAME] = before[cwd][COMPOSE_FILE_NAME]
  /\ teardowns # <<>>
  /\ is_symlink(before, cwd, MASTER_D) /\ fs[cwd][MASTER_D] = Absent

(***************************************************************************)
(* A run that switches editions                                            *)
(***************************************************************************)
\* The edition the command line does not ask for.
OtherEdition == IF args.enterprise THEN "oss" ELSE "enterprise"

\* The run started with both managed links set for the other edition, as
\* a completed handler of that edition leaves them.
StartedFromOtherEdition ==
  \A l \in ManagedLinks :
    fs0["script_dir"][l] = Link(SYMLINKS[l][OtherEdition], <<>>)

\* C21 as claimed: when a handler completes a run that started from the
\* links of the other edition, both managed links lead to the targets of
\* the edition asked for and none leads to the other edition's.
SwitchSelfCorrects ==
  (HandlerCompleted /\ StartedFromOtherEdition) =>
    \A l \in ManagedLinks :
      fs["script_dir"][l] = Link(SYMLINKS[l][AskedEdition], <<>>)

====
